---- MODULE Spec2Model ----
(***************************************************************************)
(* ResearchLogger (src/utils/logger.py): the CSV telemetry recorder and    *)
(* its aggregation pass.                                                   *)
(*                                                                         *)
(* The store (research_logs.csv) is either absent (NoFile) or a file: a     *)
(* sequence of CSV rows.  A row is a sequence of cells and a cell is a     *)
(* text: a sequence of one-character strings.                              *)
(* Numbers, booleans and None are converted to text when a row             *)
(* is written and parsed back from text when the store is summarized, as   *)
(* csv.writer, int() and float() do.  Floats of the inputs are kept in     *)
(* tenths (125 stands for 12.5); quotients are exact fractions.            *)
(***************************************************************************)
EXTENDS Integers, Sequences, FiniteSets, TLC

VARIABLES
    store,        \* the file at log_path: NoFile, or its rows
    writable,     \* whether log_path can be opened for writing
    constructed,  \* number of ResearchLogger objects constructed (sequential runs)
    ret,          \* what the last completed call returned or raised
    log,          \* history: the log_decision calls that returned normally
    removed,      \* history: the environment removed the store at some point
    pc,           \* racing recorders: position of each inside __init__
    headerWrites, \* history: number of header rows written
    sawAbsent,    \* history: per racing recorder, the store was absent at its check
    racedAppend   \* history: a row was appended while another recorder initialised

vars == <<store, writable, constructed, ret, log, removed,
          pc, headerWrites, sawAbsent, racedAppend>>

raceVars == <<pc, headerWrites, sawAbsent, racedAppend>>

-----------------------------------------------------------------------------
(* Bounds of the model *)

\* Most log_decision calls in one behaviour.
MaxRows == 2

\* Most log_decision calls in one behaviour of the racing specification.
MaxRaceRows == 2

\* Most ResearchLogger objects constructed in one sequential behaviour.
MaxLoggers == 2

-----------------------------------------------------------------------------
(* Text and number conversions *)

DigitChars == <<"0", "1", "2", "3", "4", "5", "6", "7", "8", "9">>

RECURSIVE DigitsOf(_)
\* The decimal digits of a natural number, most significant first.
DigitsOf(n) ==
    IF n < 10 THEN <<DigitChars[n + 1]>>
    ELSE DigitsOf(n \div 10) \o <<DigitChars[(n % 10) + 1]>>

\* str(int), as csv.writer renders an int cell.
IntStr(n) == IF n < 0 THEN <<"-">> \o DigitsOf(-n) ELSE DigitsOf(n)

BoolStr_lower(b) ==
    IF b THEN <<"t", "r", "u", "e">> ELSE <<"f", "a", "l", "s", "e">>

\* str(bool): csv.writer renders True and False by their Python names.
BoolStr(b) ==
    IF b THEN <<"T", "r", "u", "e">> ELSE <<"F", "a", "l", "s", "e">>

\* repr(float) of a non-negative float given in tenths: 125 -> "12.5".
FloatStr(t) == DigitsOf(t \div 10) \o <<".">> \o <<DigitChars[(t % 10) + 1]>>

\* csv.writer renders None as the empty text.
NoneStr == <<>>

\* datetime.isoformat(): the instant t seconds (0..9) after the epoch.
IsoFormat(t) ==
    <<"1", "9", "7", "0", "-", "0", "1", "-", "0", "1", "T",
      "0", "0", ":", "0", "0", ":", "0">> \o <<DigitChars[t + 1]>>

DigitVal(c) == CHOOSE k \in 0..9 : DigitChars[k + 1] = c

IsDigit(c) == \E k \in 0..9 : DigitChars[k + 1] = c

RECURSIVE DigitsVal(_)
DigitsVal(s) ==
    IF s = <<>> THEN 0
    ELSE 10 * DigitsVal(SubSeq(s, 1, Len(s) - 1)) + DigitVal(s[Len(s)])

AllDigits(s) == Len(s) > 0 /\ \A i \in 1..Len(s) : IsDigit(s[i])

\* Whether int(s) returns (otherwise it raises ValueError).
IsIntText(s) ==
    IF s # <<>> /\ s[1] = "-" THEN AllDigits(Tail(s)) ELSE AllDigits(s)

\* int(s) of a text that int() accepts.
ParseInt(s) == IF s[1] = "-" THEN 0 - DigitsVal(Tail(s)) ELSE DigitsVal(s)

DotAt(s) == CHOOSE i \in 1..Len(s) : s[i] = "."

\* Whether float(s) returns, for the texts repr(float) produces here.
IsFloatText(s) ==
    /\ \E i \in 1..Len(s) : s[i] = "."
    /\ AllDigits(SubSeq(s, 1, DotAt(s) - 1))
    /\ Len(s) = DotAt(s) + 1
    /\ IsDigit(s[Len(s)])

\* float(s), in tenths.
ParseFloat(s) == 10 * DigitsVal(SubSeq(s, 1, DotAt(s) - 1)) + DigitVal(s[Len(s)])

RECURSIVE GCD(_, _)
GCD(a, b) == IF b = 0 THEN a ELSE GCD(b, a % b)

\* The quotient a / b (b > 0) as a fraction in lowest terms.
Frac(a, b) ==
    LET m == IF a < 0 THEN 0 - a ELSE a
        g == GCD(m, b)
    IN  [num |-> a \div g, den |-> b \div g]

\* The number 0 as returned in place of a quotient.
Zero == [num |-> 0, den |-> 1]

-----------------------------------------------------------------------------
(* The store and its schema *)

\* No file at log_path.  A file is a sequence of rows, so an existing file
\* is told apart from NoFile by being wrapped: <<rows>>.
NoFile == <<>>

\* The file holding the rows rs.
File(rs) == <<rs>>

\* The rows of an existing file.
Rows(f) == f[1]

\* Path.exists() of log_path.
StoreExists_never(f) == FALSE

StoreExists(f) == f # NoFile

\* The 15 column names written by _init_csv, in order.
headers ==
    << <<"t", "i", "m", "e", "s", "t", "a", "m", "p">>,
       <<"a", "p", "p", "l", "i", "c", "a", "n", "t", "_", "i", "d">>,
       <<"r", "o", "u", "t", "i", "n", "g", "_", "s", "t", "r", "a", "t", "e", "g", "y">>,
       <<"m", "l", "_", "c", "o", "n", "f", "i", "d", "e", "n", "c", "e", "_", "s", "c", "o", "r", "e">>,
       <<"m", "l", "_", "p", "r", "e", "d", "i", "c", "t", "i", "o", "n">>,
       <<"t", "o", "t", "a", "l", "_", "t", "o", "k", "e", "n", "s">>,
       <<"p", "r", "o", "m", "p", "t", "_", "t", "o", "k", "e", "n", "s">>,
       <<"c", "o", "m", "p", "l", "e", "t", "i", "o", "n", "_", "t", "o", "k", "e", "n", "s">>,
       <<"l", "a", "t", "e", "n", "c", "y", "_", "m", "s">>,
       <<"a", "c", "t", "i", "v", "e", "_", "k", "e", "y", "_", "i", "d">>,
       <<"k", "e", "y", "_", "s", "w", "i", "t", "c", "h", "e", "s">>,
       <<"i", "s", "_", "f", "a", "i", "r", "n", "e", "s", "s", "_", "t", "r", "i", "g", "g", "e", "r", "e", "d">>,
       <<"f", "a", "i", "r", "n", "e", "s", "s", "_", "d", "e", "c", "i", "s", "i", "o", "n", "_", "c", "h", "a", "n", "g", "e", "d">>,
       <<"f", "i", "n", "a", "l", "_", "d", "e", "c", "i", "s", "i", "o", "n">>,
       <<"r", "i", "s", "k", "_", "s", "c", "o", "r", "e">> >>

-----------------------------------------------------------------------------
(* CreditDecision inputs.  An optional sub-record is a sequence of length   *)
(* at most one: <<>> is None.                                               *)

\* RoutingStrategy.value: the text of a routing-strategy tag.
RoutingValue(tag) ==
    CASE tag = "ML_ONLY"  -> <<"m", "l", "_", "o", "n", "l", "y">>
      [] tag = "LLM_ONLY" -> <<"l", "l", "m", "_", "o", "n", "l", "y">>
      [] tag = "HYBRID"   -> <<"h", "y", "b", "r", "i", "d">>

CreditDecision(ts, app, route, ml, llm, total, lat, fair, dec, risk) ==
    [timestamp             |-> ts,
     applicant_id          |-> app,
     routing_strategy_used |-> route,
     ml_prediction         |-> ml,
     llm_results           |-> llm,
     total_tokens          |-> total,
     processing_time_ms    |-> lat,
     fairness_check        |-> fair,
     decision              |-> dec,
     final_risk_score      |-> risk]

MLPrediction(conf, prob) == [confidence_score |-> conf, default_probability |-> prob]

AgentResult(n) == [tokens_used |-> n]

FairnessCheck(t, c) == [is_triggered |-> t, decision_changed |-> c]

TxtA1 == <<"A", "1">>

TxtA2 == <<"A", "2">>

TxtApprove == <<"a", "p", "p", "r", "o", "v", "e">>

TxtDeny == <<"d", "e", "n", "y">>

\* The decisions appended in the sequential and racing specifications: the
\* round-trip scenario, an ML-only request without fairness check, a request
\* whose per-agent tokens exceed total_tokens, and the fairness combinations.
\* Timestamps are not monotone in any call order that uses two of them.
Decisions ==
    { CreditDecision(2, TxtA1, "LLM_ONLY", <<>>,
                     <<AgentResult(60), AgentResult(10)>>, 100, 125,
                     <<FairnessCheck(TRUE, FALSE)>>, TxtApprove, 3),
      CreditDecision(1, TxtA2, "ML_ONLY", <<MLPrediction(0, 5)>>,
                     <<>>, 0, 5, <<>>, TxtDeny, 9),
      CreditDecision(1, TxtA1, "HYBRID", <<MLPrediction(10, 0)>>,
                     <<AgentResult(60), AgentResult(10)>>, 50, 40,
                     <<FairnessCheck(FALSE, TRUE)>>, TxtApprove, 0),
      CreditDecision(3, TxtA2, "HYBRID", <<MLPrediction(5, 5)>>,
                     <<AgentResult(30)>>, 80, 101,
                     <<FairnessCheck(TRUE, TRUE)>>, TxtDeny, 7),
      CreditDecision(0, TxtA1, "ML_ONLY", <<MLPrediction(9, 1)>>,
                     <<>>, 0, 0, <<FairnessCheck(FALSE, FALSE)>>, TxtApprove, 1) }

\* The key_switches arguments.
KeySwitches == {0, 2}

\* The decisions logged where the environment or a second recorder acts.
FewDecisions == {d \in Decisions : d.timestamp \in {1, 2}}

\* Every combination of the field values below: the inputs of the
\* specification that forms one row per input.
AllDecisions ==
    { CreditDecision(1, TxtA1, route, ml, tk[2], tk[1], 125, fair, TxtApprove, 3) :
        route \in {"ML_ONLY", "HYBRID"},
        ml \in {<<>>, <<MLPrediction(0, 0)>>, <<MLPrediction(7, 10)>>},
        tk \in { <<0, <<>> >>, <<100, <<>> >>,
                 <<100, <<AgentResult(60), AgentResult(10)>> >>,
                 <<70, <<AgentResult(60), AgentResult(10)>> >>,
                 <<50, <<AgentResult(60), AgentResult(10)>> >>,
                 <<0, <<AgentResult(0)>> >> },
        fair \in { <<>>, <<FairnessCheck(TRUE, FALSE)>>, <<FairnessCheck(FALSE, TRUE)>>,
                   <<FairnessCheck(TRUE, TRUE)>>, <<FairnessCheck(FALSE, FALSE)>> } }

-----------------------------------------------------------------------------
(* log_decision: forming the row *)

RECURSIVE SumTokens(_)
\* sum(r.tokens_used for r in llm_results)
SumTokens(rs) == IF rs = <<>> THEN 0 ELSE Head(rs).tokens_used + SumTokens(Tail(rs))

PromptTokens(d) == IF d.llm_results # <<>> THEN SumTokens(d.llm_results) ELSE 0

CompletionTokens_clamped(d) ==
    IF d.total_tokens < PromptTokens(d) THEN 0 ELSE d.total_tokens - PromptTokens(d)

CompletionTokens(d) == d.total_tokens - PromptTokens(d)

FairnessTriggered(d) ==
    IF d.fairness_check # <<>> THEN d.fairness_check[1].is_triggered ELSE FALSE

FairnessChanged(d) ==
    IF d.fairness_check # <<>> THEN d.fairness_check[1].decision_changed ELSE FALSE

MlConfidence_zero(d) ==
    IF d.ml_prediction # <<>> THEN <<d.ml_prediction[1].confidence_score>> ELSE <<0>>

\* None is <<>>, a float x is <<x>>.
MlConfidence(d) ==
    IF d.ml_prediction # <<>> THEN <<d.ml_prediction[1].confidence_score>> ELSE <<>>

MlProb(d) ==
    IF d.ml_prediction # <<>> THEN <<d.ml_prediction[1].default_probability>> ELSE <<>>

\* _extract_key_id
ExtractKeyId(d) ==
    IF d.llm_results # <<>> THEN <<"k", "e", "y", "_", "u", "s", "e", "d">>
    ELSE <<"m", "l", "_", "o", "n", "l", "y">>

\* The ResearchLog entry built from a decision: a record of the fields as
\* given, with no validation or coercion of their values.
ResearchLog(d, key_switches) ==
    [timestamp                 |-> d.timestamp,
     applicant_id              |-> d.applicant_id,
     routing_strategy          |-> d.routing_strategy_used,
     ml_confidence_score       |-> MlConfidence(d),
     ml_prediction             |-> MlProb(d),
     total_tokens              |-> d.total_tokens,
     prompt_tokens             |-> PromptTokens(d),
     completion_tokens         |-> CompletionTokens(d),
     latency_ms                |-> d.processing_time_ms,
     active_key_id             |-> ExtractKeyId(d),
     key_switches              |-> key_switches,
     is_fairness_triggered     |-> FairnessTriggered(d),
     fairness_decision_changed |-> FairnessChanged(d),
     final_decision            |-> d.decision,
     risk_score                |-> d.final_risk_score]

\* Whether the ResearchLog schema accepts the entry.  The schema is defined
\* outside this file; it is taken to constrain no field, so an entry with a
\* negative completion_tokens is accepted like any other.
ResearchLogValid(e) == TRUE

\* csv.writer's rendering of an optional float cell.
OptFloatStr(o) == IF o = <<>> THEN NoneStr ELSE FloatStr(o[1])

\* The cells csv.writer writes for a log entry, in column order.
CsvRow(e) ==
    << IsoFormat(e.timestamp),
       e.applicant_id,
       RoutingValue(e.routing_strategy),
       OptFloatStr(e.ml_confidence_score),
       OptFloatStr(e.ml_prediction),
       IntStr(e.total_tokens),
       IntStr(e.prompt_tokens),
       IntStr(e.completion_tokens),
       FloatStr(e.latency_ms),
       e.active_key_id,
       IntStr(e.key_switches),
       BoolStr(e.is_fairness_triggered),
       BoolStr(e.fairness_decision_changed),
       e.final_decision,
       FloatStr(e.risk_score) >>

\* The row log_decision(d, key_switches) writes.
RowOf(d, key_switches) == CsvRow(ResearchLog(d, key_switches))

AppendWrite_truncating(f, row) == File(<<row>>)

\* A write at the end of the file (a handle opened 'a' writes at the end and
\* creates the file when it is absent).
AppendWrite(f, row) == File((IF f = NoFile THEN <<>> ELSE Rows(f)) \o <<row>>)

LogFile_partial(f, row, w) ==
    IF w THEN AppendWrite(f, row) ELSE AppendWrite(f, SubSeq(row, 1, 3))

\* The file after the with-block of log_decision: open(log_path, 'a') raises
\* before anything is written when the path is not writable; otherwise the
\* whole row is written at the end.
LogFile(f, row, w) == IF w THEN AppendWrite(f, row) ELSE f

-----------------------------------------------------------------------------
(* __init__ / _init_csv *)

InitCsv_overwrite(f, w) == IF w THEN File(<<headers>>) ELSE f

\* The file after _init_csv: created with the header row when absent (the
\* open(log_path, 'w') raises when the path is not writable), else untouched.
InitCsv(f, w) ==
    IF ~StoreExists(f) THEN (IF w THEN File(<<headers>>) ELSE f) ELSE f

\* Whether _init_csv raises.
InitRaises(f, w) == ~StoreExists(f) /\ ~w

-----------------------------------------------------------------------------
(* get_summary_stats *)

\* The per-token price of the estimated cost is 1 / CostPerTokenDen.
CostPerTokenDen == 10000000

\* The keys get_summary_stats reads from each row.
K_total_tokens == <<"t", "o", "t", "a", "l", "_", "t", "o", "k", "e", "n", "s">>

K_latency_ms == <<"l", "a", "t", "e", "n", "c", "y", "_", "m", "s">>

K_routing_strategy ==
    <<"r", "o", "u", "t", "i", "n", "g", "_", "s", "t", "r", "a", "t", "e", "g", "y">>

K_is_fairness_triggered ==
    <<"i", "s", "_", "f", "a", "i", "r", "n", "e", "s", "s", "_",
      "t", "r", "i", "g", "g", "e", "r", "e", "d">>

K_fairness_decision_changed ==
    <<"f", "a", "i", "r", "n", "e", "s", "s", "_", "d", "e", "c", "i", "s", "i", "o", "n", "_",
      "c", "h", "a", "n", "g", "e", "d">>

K_key_switches == <<"k", "e", "y", "_", "s", "w", "i", "t", "c", "h", "e", "s">>

\* The value DictReader gives a field name that the row has no cell for (None).
RestVal == <<"None">>

\* One row as DictReader yields it: a mapping from the field names (the
\* file's first row) to the row's cells; of two equal field names the last
\* one's cell is kept, a missing cell is RestVal.
DictRow(fieldnames, row) ==
    [k \in {fieldnames[j] : j \in 1..Len(fieldnames)} |->
        LET j == CHOOSE i \in 1..Len(fieldnames) :
                    /\ fieldnames[i] = k
                    /\ \A i2 \in 1..Len(fieldnames) : fieldnames[i2] = k => i2 <= i
        IN  IF j <= Len(row) THEN row[j] ELSE RestVal]

\* list(csv.DictReader(f)): the first row names the fields, each further row
\* is a mapping; a file without rows yields the empty list.
DictReader(rs) ==
    IF rs = <<>> THEN <<>>
    ELSE [i \in 1..(Len(rs) - 1) |-> DictRow(rs[1], rs[i + 1])]

RECURSIVE SumSeq(_)
SumSeq(xs) == IF xs = <<>> THEN 0 ELSE Head(xs) + SumSeq(Tail(xs))

\* sum(1 for r in rows if r[key] == text)
CountEq(rows, key, text) == Cardinality({i \in 1..Len(rows) : rows[i][key] = text})

HasKey(rows, key) == \A i \in 1..Len(rows) : key \in DOMAIN rows[i]

\* The routing breakdown: each strategy text seen, with its number of rows.
RoutingDist(rows) ==
    [s \in {rows[i][K_routing_strategy] : i \in 1..Len(rows)} |->
        Cardinality({i \in 1..Len(rows) : rows[i][K_routing_strategy] = s})]

ChangeRate_unguarded(changes, triggers) == [num |-> changes, den |-> triggers]

\* fairness_changes / fairness_triggers if fairness_triggers > 0 else 0
ChangeRate(changes, triggers) ==
    IF triggers > 0 THEN Frac(changes, triggers) ELSE Zero

Raised(exc) == [kind |-> "raised", exc |-> exc]

ErrorResult(msg) == [kind |-> "error", error |-> msg]

\* The statistics of a non-empty list of rows whose fields parse.
Stats(rows) ==
    LET total          == Len(rows)
        total_tokens   == SumSeq([i \in 1..total |-> ParseInt(rows[i][K_total_tokens])])
        latency        == SumSeq([i \in 1..total |-> ParseFloat(rows[i][K_latency_ms])])
        triggers       == CountEq(rows, K_is_fairness_triggered, <<"T", "r", "u", "e">>)
        changes        == CountEq(rows, K_fairness_decision_changed, <<"T", "r", "u", "e">>)
        total_switches == SumSeq([i \in 1..total |-> ParseInt(rows[i][K_key_switches])])
    IN  [kind |-> "stats",
         total_evaluations |-> total,
         token_usage |->
             [total               |-> total_tokens,
              average_per_request |-> Frac(total_tokens, total),
              estimated_cost_usd  |-> Frac(total_tokens, CostPerTokenDen)],
         performance |-> [average_latency_ms |-> Frac(latency, 10 * total)],
         routing_distribution |-> RoutingDist(rows),
         fairness_metrics |->
             [triggers         |-> triggers,
              decision_changes |-> changes,
              change_rate      |-> ChangeRate(changes, triggers)],
         resilience |->
             [total_key_switches |-> total_switches,
              switch_rate        |-> Frac(total_switches, total)]]

\* What the body of get_summary_stats after the emptiness test returns or
\* raises, in the order the fields are read.
Summarize(rows) ==
    IF ~HasKey(rows, K_total_tokens) THEN Raised("KeyError")
    ELSE IF \E i \in 1..Len(rows) : ~IsIntText(rows[i][K_total_tokens])
    THEN Raised("ValueError")
    ELSE IF ~HasKey(rows, K_latency_ms) THEN Raised("KeyError")
    ELSE IF \E i \in 1..Len(rows) : ~IsFloatText(rows[i][K_latency_ms])
    THEN Raised("ValueError")
    ELSE IF ~HasKey(rows, K_routing_strategy) THEN Raised("KeyError")
    ELSE IF ~HasKey(rows, K_is_fairness_triggered) THEN Raised("KeyError")
    ELSE IF ~HasKey(rows, K_fairness_decision_changed) THEN Raised("KeyError")
    ELSE IF ~HasKey(rows, K_key_switches) THEN Raised("KeyError")
    ELSE IF \E i \in 1..Len(rows) : ~IsIntText(rows[i][K_key_switches])
    THEN Raised("ValueError")
    ELSE Stats(rows)

SummaryStats_noEmptyTest(f) ==
    IF ~StoreExists(f) THEN ErrorResult("No logs found")
    ELSE IF Len(Rows(f)) <= 1 THEN Raised("ZeroDivisionError")
    ELSE Summarize(DictReader(Rows(f)))

SummaryStats_conflated(f) ==
    IF ~StoreExists(f) \/ DictReader(Rows(f)) = <<>> THEN ErrorResult("No logs found")
    ELSE Summarize(DictReader(Rows(f)))

\* What get_summary_stats returns or raises for the file f.
SummaryStats(f) ==
    IF ~StoreExists(f) THEN ErrorResult("No logs found")
    ELSE LET rows == DictReader(Rows(f))
         IN  IF rows = <<>> THEN ErrorResult("Log file is empty")
             ELSE Summarize(rows)

-----------------------------------------------------------------------------
(* The calls, each completing before the next starts (sequential use) *)

Returned(op, val) == [op |-> op, val |-> val]

Call(d, key_switches) == [decision |-> d, key_switches |-> key_switches]

Init ==
    /\ store = NoFile
    /\ writable = TRUE
    /\ constructed = 0
    /\ ret = Returned("start", [kind |-> "None"])
    /\ log = <<>>
    /\ removed = FALSE
    /\ pc = [r \in {1, 2} |-> "new"]
    /\ headerWrites = 0
    /\ sawAbsent = [r \in {1, 2} |-> FALSE]
    /\ racedAppend = FALSE

\* ResearchLogger(log_path): __init__ runs _init_csv; when that raises no
\* object comes into being.
Construct ==
    /\ constructed < MaxLoggers
    /\ store' = InitCsv(store, writable)
    /\ IF InitRaises(store, writable)
       THEN /\ ret' = Returned("__init__", Raised("PermissionError"))
            /\ constructed' = constructed
       ELSE /\ ret' = Returned("__init__", [kind |-> "None"])
            /\ constructed' = constructed + 1
    /\ UNCHANGED <<writable, log, removed, raceVars>>

\* logger.log_decision(d, key_switches)
LogDecision(d, key_switches) ==
    /\ constructed > 0
    /\ Len(log) < MaxRows
    /\ IF ~ResearchLogValid(ResearchLog(d, key_switches))
       THEN /\ ret' = Returned("log_decision", Raised("ValidationError"))
            /\ UNCHANGED <<store, log>>
       ELSE /\ store' = LogFile(store, RowOf(d, key_switches), writable)
            /\ IF writable
               THEN /\ ret' = Returned("log_decision", [kind |-> "None"])
                    /\ log' = Append(log, Call(d, key_switches))
               ELSE /\ ret' = Returned("log_decision", Raised("PermissionError"))
                    /\ log' = log
    /\ UNCHANGED <<writable, constructed, removed, raceVars>>

\* logger.get_summary_stats()
GetSummaryStats ==
    /\ constructed > 0
    /\ ret' = Returned("get_summary_stats", SummaryStats(store))
    /\ UNCHANGED <<store, writable, constructed, log, removed, raceVars>>

Next ==
    \/ Construct
    \/ \E d \in Decisions, k \in KeySwitches : LogDecision(d, k)
    \/ GetSummaryStats

Spec == Init /\ [][Next]_vars

-----------------------------------------------------------------------------
(* The environment of the sequential calls: the permissions of log_path    *)
(* change, the file is removed                                             *)

\* log_path becomes read-only, or writable again.
Chmod ==
    /\ writable' = ~writable
    /\ UNCHANGED <<store, constructed, ret, log, removed, raceVars>>

\* The file at log_path is deleted from outside the program.
RemoveStore ==
    /\ StoreExists(store)
    /\ store' = NoFile
    /\ removed' = TRUE
    /\ UNCHANGED <<writable, constructed, ret, log, raceVars>>

NextEnv ==
    \/ Construct
    \/ \E d \in FewDecisions : LogDecision(d, 0)
    \/ GetSummaryStats
    \/ Chmod
    \/ RemoveStore

SpecEnv == Init /\ [][NextEnv]_vars

-----------------------------------------------------------------------------
(* One row per input: every decision of AllDecisions is logged into a      *)
(* freshly initialised store and the store is summarized                   *)

InitRow ==
    /\ store = InitCsv(NoFile, TRUE)
    /\ writable = TRUE
    /\ constructed = 1
    /\ ret \in {Returned("input", Call(d, k)) : d \in AllDecisions, k \in KeySwitches}
    /\ log = <<>>
    /\ removed = FALSE
    /\ pc = [r \in {1, 2} |-> "new"]
    /\ headerWrites = 0
    /\ sawAbsent = [r \in {1, 2} |-> FALSE]
    /\ racedAppend = FALSE

LogInput ==
    /\ ret.op = "input"
    /\ LogDecision(ret.val.decision, ret.val.key_switches)

NextRow ==
    \/ LogInput
    \/ ret.op # "input" /\ GetSummaryStats

SpecRow == InitRow /\ [][NextRow]_vars

-----------------------------------------------------------------------------
(* Two recorders on the same path, the steps of __init__ and log_decision  *)
(* interleaved.  A step is one system call on the file: the existence      *)
(* test, the truncating open, the write of the buffered header when the    *)
(* handle is closed, the write of a row at the end of the file.            *)

Recorders == {1, 2}

RECURSIVE JoinCells(_)
\* The cells of a row separated by commas (no cell here needs quoting).
JoinCells(row) ==
    IF row = <<>> THEN <<>>
    ELSE IF Len(row) = 1 THEN row[1]
    ELSE row[1] \o <<",">> \o JoinCells(Tail(row))

\* The line csv.writer writes for a row.
Line(row) == JoinCells(row) \o <<"\r", "\n">>

RECURSIVE Bytes(_)
\* The content of a file of rows.
Bytes(rs) == IF rs = <<>> THEN <<>> ELSE Line(Head(rs)) \o Bytes(Tail(rs))

\* bs split at each occurrence of the separator, as a sequence of pieces.
SplitOn(bs, sep) ==
    LET P == {i \in 1..Len(bs) : bs[i] = sep}
        n == Cardinality(P)
        pos(k) == IF k = 0 THEN 0
                  ELSE IF k = n + 1 THEN Len(bs) + 1
                  ELSE CHOOSE p \in P : Cardinality({q \in P : q < p}) = k - 1
    IN  [k \in 1..(n + 1) |-> SubSeq(bs, pos(k - 1) + 1, pos(k) - 1)]

\* The rows a content reads back as: one per line, a last line without
\* terminator included, a carriage return before the line feed dropped.
ReadRows(bs) ==
    LET lines == SplitOn(bs, "\n")
        kept  == IF lines[Len(lines)] = <<>> THEN SubSeq(lines, 1, Len(lines) - 1)
                 ELSE lines
        strip(l) == IF l # <<>> /\ l[Len(l)] = "\r" THEN SubSeq(l, 1, Len(l) - 1) ELSE l
    IN  [i \in 1..Len(kept) |-> SplitOn(strip(kept[i]), ",")]

\* open(log_path, 'w'): the file is created, or emptied when it exists.
OpenTruncate(f) == File(<<>>)

\* The write of a row through a handle opened 'w', whose offset is 0: the
\* bytes of the line replace the bytes the file holds at the same offsets.
WriteAtStart(f, row) ==
    LET old == Bytes(Rows(f))
        new == Line(row)
    IN  IF old = <<>> THEN File(<<row>>)
        ELSE File(ReadRows(new \o SubSeq(old, Len(new) + 1, Len(old))))

\* _init_csv, line 26: the existence test.
RCheck(r) ==
    /\ pc[r] = "new"
    /\ pc' = [pc EXCEPT ![r] = IF StoreExists(store) THEN "ready" ELSE "absent"]
    /\ sawAbsent' = [sawAbsent EXCEPT ![r] = (store = NoFile)]
    /\ UNCHANGED <<store, writable, constructed, ret, log, removed,
                   headerWrites, racedAppend>>

\* _init_csv, line 36: open(log_path, 'w').
ROpenW(r) ==
    /\ pc[r] = "absent"
    /\ store' = OpenTruncate(store)
    /\ pc' = [pc EXCEPT ![r] = "opened"]
    /\ UNCHANGED <<writable, constructed, ret, log, removed,
                   headerWrites, sawAbsent, racedAppend>>

\* _init_csv, lines 37-38: the header row, written when the with-block ends.
RWriteHeader(r) ==
    /\ pc[r] = "opened"
    /\ store' = WriteAtStart(store, headers)
    /\ headerWrites' = headerWrites + 1
    /\ pc' = [pc EXCEPT ![r] = "ready"]
    /\ UNCHANGED <<writable, constructed, ret, log, removed, sawAbsent, racedAppend>>

\* log_decision of a recorder whose __init__ has returned.
RLog(r, d, key_switches) ==
    /\ pc[r] = "ready"
    /\ Len(log) < MaxRaceRows
    /\ ResearchLogValid(ResearchLog(d, key_switches))
    /\ store' = LogFile(store, RowOf(d, key_switches), writable)
    /\ log' = Append(log, Call(d, key_switches))
    /\ racedAppend' = (racedAppend \/ \E q \in Recorders \ {r} : pc[q] \in {"absent", "opened"})
    /\ UNCHANGED <<writable, constructed, ret, removed, pc, headerWrites, sawAbsent>>

NextRace ==
    \/ \E r \in Recorders : RCheck(r)
    \/ \E r \in Recorders : ROpenW(r)
    \/ \E r \in Recorders : RWriteHeader(r)
    \/ \E r \in Recorders, d \in FewDecisions : RLog(r, d, 0)

SpecRace == Init /\ [][NextRace]_vars

-----------------------------------------------------------------------------
(* Properties *)

\* The rows the calls recorded in log wrote, in call order.
LoggedRows == [i \in 1..Len(log) |-> RowOf(log[i].decision, log[i].key_switches)]

\* The data rows of the store: all rows but the first.
DataRows == SubSeq(Rows(store), 2, Len(Rows(store)))

TxtTrue == <<"T", "r", "u", "e">>

C1_Store ==
    StoreExists(store) =>
        /\ Len(Rows(store)) = 1 + Len(log)
        /\ Rows(store)[1] = headers
        /\ \A i \in 1..Len(log) : Rows(store)[i + 1] = LoggedRows[i]

C1_Step ==
    StoreExists(store) =>
        /\ StoreExists(store')
        /\ Len(Rows(store')) >= Len(Rows(store))
        /\ SubSeq(Rows(store'), 1, Len(Rows(store))) = Rows(store)
        /\ Len(Rows(store')) = Len(Rows(store)) + (Len(log') - Len(log))
        /\ Len(log') - Len(log) \in {0, 1}

\* C1: each log_decision call adds exactly one data row at the end of the
\* store and changes nothing else: after N calls the store holds the header
\* followed by the N rows of the calls in call order, and no step changes,
\* moves or removes a row that is already in the store.
C1_OneRowPerAppend == []C1_Store /\ [][C1_Step]_vars

\* Two calls whose timestamps decrease, their rows in the store in call order.
C1_Witness ==
    /\ Len(log) = 2
    /\ log[1].decision.timestamp > log[2].decision.timestamp
    /\ Len(Rows(store)) = 3
    /\ Rows(store)[2][1] = IsoFormat(log[1].decision.timestamp)
    /\ Rows(store)[3][1] = IsoFormat(log[2].decision.timestamp)

\* The 15 column names of the persisted store format, in their fixed order.
SchemaColumns ==
    << <<"t", "i", "m", "e", "s", "t", "a", "m", "p">>,
       <<"a", "p", "p", "l", "i", "c", "a", "n", "t", "_", "i", "d">>,
       <<"r", "o", "u", "t", "i", "n", "g", "_", "s", "t", "r", "a", "t", "e", "g", "y">>,
       <<"m", "l", "_", "c", "o", "n", "f", "i", "d", "e", "n", "c", "e", "_", "s", "c", "o", "r", "e">>,
       <<"m", "l", "_", "p", "r", "e", "d", "i", "c", "t", "i", "o", "n">>,
       K_total_tokens,
       <<"p", "r", "o", "m", "p", "t", "_", "t", "o", "k", "e", "n", "s">>,
       <<"c", "o", "m", "p", "l", "e", "t", "i", "o", "n", "_", "t", "o", "k", "e", "n", "s">>,
       K_latency_ms,
       <<"a", "c", "t", "i", "v", "e", "_", "k", "e", "y", "_", "i", "d">>,
       K_key_switches,
       K_is_fairness_triggered,
       K_fairness_decision_changed,
       <<"f", "i", "n", "a", "l", "_", "d", "e", "c", "i", "s", "i", "o", "n">>,
       <<"r", "i", "s", "k", "_", "s", "c", "o", "r", "e">> >>

C2_Step ==
    (Construct /\ ret'.val.kind = "None") =>
        IF store = NoFile
        THEN store' = File(<<SchemaColumns>>) /\ Len(SchemaColumns) = 15
        ELSE store' = store

C2_Fresh == (constructed >= 1 /\ log = <<>>) => store = File(<<SchemaColumns>>)

\* C2: initialization creates a store of exactly the header row (the 15
\* column names in order) where no store exists and leaves an existing
\* store unchanged, whatever initialize and append calls came before; so
\* any number of initializations of a fresh path leave one header row and
\* no data rows.
C2_IdempotentInit == []C2_Fresh /\ [][C2_Step]_vars

\* A second recorder was constructed on a store that held data rows.
C2_Witness ==
    /\ constructed = 2
    /\ ret = Returned("__init__", [kind |-> "None"])
    /\ Len(log) >= 1
    /\ Rows(store) = <<SchemaColumns>> \o LoggedRows

\* C3: the row written has prompt_tokens = the sum of tokens_used over
\* llm_results (0 when there are none) and completion_tokens =
\* total_tokens - prompt_tokens, negative when the sum exceeds total_tokens;
\* every append of an input succeeds.
C3_TokenArithmetic ==
    /\ ret.op # "input" => Len(log) = 1
    /\ ret.op = "log_decision" => ret.val.kind = "None"
    /\ Len(log) = 1 =>
        LET d   == log[1].decision
            row == Rows(store)[2]
            sum == SumSeq([i \in 1..Len(d.llm_results) |-> d.llm_results[i].tokens_used])
        IN  /\ IsIntText(row[6]) /\ ParseInt(row[6]) = d.total_tokens
            /\ IsIntText(row[7]) /\ ParseInt(row[7]) = sum
            /\ IsIntText(row[8]) /\ ParseInt(row[8]) = d.total_tokens - sum
            /\ d.llm_results = <<>> => row[7] = <<"0">>

\* A row whose completion_tokens is negative has been written.
C3_Witness ==
    /\ Len(log) = 1
    /\ ret = Returned("log_decision", [kind |-> "None"])
    /\ PromptTokens(log[1].decision) > log[1].decision.total_tokens
    /\ Rows(store)[2][8] = <<"-", "2", "0">>

\* C4: without ml_prediction the ml_confidence_score and ml_prediction cells
\* of the row are empty, not the text of a number; with it they are the
\* texts of its confidence_score and default_probability.
C4_OptionalFields ==
    Len(log) = 1 =>
        LET d   == log[1].decision
            row == Rows(store)[2]
        IN  IF d.ml_prediction = <<>>
            THEN /\ row[4] = <<>> /\ ~IsFloatText(row[4]) /\ ~IsIntText(row[4])
                 /\ row[5] = <<>> /\ ~IsFloatText(row[5]) /\ ~IsIntText(row[5])
            ELSE /\ IsFloatText(row[4])
                 /\ ParseFloat(row[4]) = d.ml_prediction[1].confidence_score
                 /\ IsFloatText(row[5])
                 /\ ParseFloat(row[5]) = d.ml_prediction[1].default_probability

\* A row of a decision without ml_prediction has been written.
C4_Witness ==
    /\ Len(log) = 1
    /\ log[1].decision.ml_prediction = <<>>
    /\ Len(Rows(store)) = 2
    /\ Rows(store)[2][4] = <<>>

NoLogsFound == ErrorResult("No logs found")

LogFileEmpty == ErrorResult("Log file is empty")

\* get_summary_stats is the first call on the first recorder constructed for
\* a path that nothing has written to or removed the store from.
FirstRun ==
    /\ constructed = 1
    /\ ret.op = "__init__"
    /\ log = <<>>
    /\ ~removed

\* C5 as stated: summarize of a path without store returns "No logs found",
\* and that is the result when summarize is the first operation requested
\* for a fresh path.
C5_FirstRunNoLogs ==
    [][GetSummaryStats =>
        /\ ~StoreExists(store) => ret'.val = NoLogsFound
        /\ FirstRun => ret'.val = NoLogsFound]_vars

\* C5, amended: summarize of a path without store returns "No logs found"
\* and does not raise; the first run does not yield it: constructing the
\* recorder creates the store, so summarize as the first operation for a
\* fresh path returns "Log file is empty", and "No logs found" is returned
\* only after the store was removed behind the constructed recorder.
C5_MissingStore ==
    [][GetSummaryStats =>
        /\ ~StoreExists(store) => ret'.val = NoLogsFound
        /\ FirstRun => ret'.val = LogFileEmpty
        /\ ret'.val = NoLogsFound => (~StoreExists(store) /\ removed)]_vars

\* summarize has returned "No logs found" for a store that is absent.
C5_Witness ==
    /\ ret = Returned("get_summary_stats", NoLogsFound)
    /\ ~StoreExists(store)
    /\ removed

\* C6: summarize of a store that exists and holds the header row only
\* returns "Log file is empty", which is not the result for a missing
\* store, and returns no statistics (nothing is divided by the row count 0).
C6_EmptyStore ==
    (ret.op = "get_summary_stats" /\ StoreExists(store) /\ Len(Rows(store)) <= 1) =>
        /\ ret.val = LogFileEmpty
        /\ ret.val # NoLogsFound
        /\ ret.val # SummaryStats(NoFile)
        /\ ret.val.kind = "error"

\* summarize has run on a just-initialised store.
C6_Witness ==
    /\ ret = Returned("get_summary_stats", LogFileEmpty)
    /\ Rows(store) = <<headers>>
    /\ log = <<>>

\* C7: for a store with at least one data row summarize returns statistics
\* whose change_rate is decision_changes / triggers when some row has
\* is_fairness_triggered = True and 0 when none has, also when rows have
\* fairness_decision_changed = True.
C7_ChangeRate ==
    (ret.op = "get_summary_stats" /\ StoreExists(store) /\ Len(Rows(store)) >= 2) =>
        LET trig == Cardinality({i \in 1..Len(DataRows) : DataRows[i][12] = TxtTrue})
            chg  == Cardinality({i \in 1..Len(DataRows) : DataRows[i][13] = TxtTrue})
            fm   == ret.val.fairness_metrics
        IN  /\ ret.val.kind = "stats"
            /\ fm.triggers = trig
            /\ fm.decision_changes = chg
            /\ IF trig > 0
               THEN /\ fm.change_rate.den > 0
                    /\ fm.change_rate.num * trig = chg * fm.change_rate.den
               ELSE fm.change_rate = Zero

\* Statistics of a store without triggered row and with a changed row.
C7_Witness ==
    /\ ret.op = "get_summary_stats"
    /\ ret.val.kind = "stats"
    /\ ret.val.fairness_metrics.triggers = 0
    /\ ret.val.fairness_metrics.decision_changes > 0
    /\ ret.val.fairness_metrics.change_rate = Zero

RECURSIVE SumOver(_, _)
\* The sum of f[x] over the x of the finite set S.
SumOver(f, S) ==
    IF S = {} THEN 0
    ELSE LET x == CHOOSE y \in S : TRUE IN f[x] + SumOver(f, S \ {x})

\* C8: after a non-empty sequence of appends on a freshly initialised store,
\* summarize returns the number of appends, the sum of their total_tokens,
\* the sum of their key_switches, the number of records whose fairness_check
\* is present and triggered, and a routing distribution with an entry for
\* exactly the tags appended, each with its count, the counts adding up to
\* the number of appends.
C8_SummaryOfHistory ==
    (ret.op = "get_summary_stats" /\ Len(log) >= 1) =>
        LET n    == Len(log)
            v    == ret.val
            tags == {RoutingValue(log[i].decision.routing_strategy_used) : i \in 1..n}
        IN  /\ v.kind = "stats"
            /\ v.total_evaluations = n
            /\ v.token_usage.total = SumSeq([i \in 1..n |-> log[i].decision.total_tokens])
            /\ v.resilience.total_key_switches = SumSeq([i \in 1..n |-> log[i].key_switches])
            /\ v.fairness_metrics.triggers =
                   Cardinality({i \in 1..n :
                       /\ log[i].decision.fairness_check # <<>>
                       /\ log[i].decision.fairness_check[1].is_triggered})
            /\ DOMAIN v.routing_distribution = tags
            /\ \A t \in tags :
                   v.routing_distribution[t] =
                       Cardinality({i \in 1..n :
                           RoutingValue(log[i].decision.routing_strategy_used) = t})
            /\ SumOver(v.routing_distribution, tags) = n

\* Statistics of two appends with different tags, one record triggered and
\* one without fairness_check, with key switches.
C8_Witness ==
    /\ ret.op = "get_summary_stats"
    /\ Len(log) = 2
    /\ ret.val.kind = "stats"
    /\ Cardinality(DOMAIN ret.val.routing_distribution) = 2
    /\ ret.val.fairness_metrics.triggers = 1
    /\ \E i \in 1..2 : log[i].decision.fairness_check = <<>>
    /\ ret.val.resilience.total_key_switches = 2

C9_Step ==
    ((\E d \in FewDecisions : LogDecision(d, 0)) /\ ~writable) =>
        /\ store' = store
        /\ log' = log
        /\ ret' = Returned("log_decision", Raised("PermissionError"))

C9_Rows ==
    StoreExists(store) => \A i \in 1..Len(Rows(store)) : Len(Rows(store)[i]) = 15

\* C9: a log_decision call on a path that is not writable raises the I/O
\* error to the caller and leaves the store exactly as it was; every row of
\* the store is a complete row of 15 cells at all times.
C9_FailedAppend == []C9_Rows /\ [][C9_Step]_vars

\* An append has failed on a store that holds the rows of earlier appends.
C9_Witness ==
    /\ ret = Returned("log_decision", Raised("PermissionError"))
    /\ ~writable
    /\ ~removed
    /\ Len(log) >= 1
    /\ Rows(store) = <<headers>> \o LoggedRows

\* A row whose append has returned is not in the store.
RowLost ==
    \E i \in 1..Len(log) :
        \/ ~StoreExists(store)
        \/ \A j \in 1..Len(Rows(store)) : Rows(store)[j] # LoggedRows[i]

\* C10: with two recorders racing on a fresh path a state is reachable
\* (C10_Witness) in which an appended row is gone from the store and the
\* header has been written more than once; a row is lost only when it was
\* appended while the other recorder was between its existence test and its
\* header write, and the header is written twice only when both recorders
\* found the store absent.
C10_RaceOnly ==
    /\ RowLost => racedAppend
    /\ headerWrites > 1 => \A r \in Recorders : sawAbsent[r]

\* An appended row is no longer in the store, the header was written twice.
C10_Witness ==
    /\ RowLost
    /\ headerWrites > 1
    /\ \A r \in Recorders : pc[r] = "ready"

====
